---- MODULE Spec2Model ----
(***************************************************************************)
(* Model of the Bluesky comment mirror of tskulbru.github.io               *)
(* (utils/commentSection.ts and the CommentSection.astro component).       *)
(*                                                                         *)
(* Strings are sequences of tokens (one-character strings, or a literal    *)
(* piece of a template), so that split, pop and template concatenation are *)
(* computed, not assumed.  JavaScript values carry a type tag t.  A call    *)
(* that may throw returns Ret(value) or Throw(error).                      *)
(***************************************************************************)
EXTENDS Integers, Sequences, FiniteSets, TLC

VARIABLES
    page,        \* the .comments-section containers of the document, in document order
    readyState,  \* document.readyState
    script,      \* progress of the component script: import, then the explicit call
    dclListener, \* the DOMContentLoaded listener the module may register
    view,        \* per container: its regions, click listeners and cycles in flight
    intervals,   \* the setInterval timers registered so far
    extra,       \* number of clicks and timer ticks so far
    uncaught,    \* exceptions and rejections that reached the host page
    last,        \* the step just taken, when it ended a cycle: which one and how
    now,         \* minutes since the component script ran
    rInput,      \* the arguments of a function applied on its own (renderComments,
                 \* getBlueskyPostUrl, generateSocialShareUrls)
    rOutput      \* what it returned, or Pending

pvars == <<page, readyState, script, dclListener, view, intervals, extra, uncaught,
           last, now>>
rvars == <<rInput, rOutput>>
vars == <<page, readyState, script, dclListener, view, intervals, extra, uncaught,
          last, now, rInput, rOutput>>

(***************************** JavaScript values ***************************)

Undefined == [t |-> "undefined"]
Null == [t |-> "null"]
Num(n) == [t |-> "number", v |-> n]
Str(s) == [t |-> "string", v |-> s]
Arr(a) == [t |-> "array", v |-> a]

Ret(v) == [threw |-> FALSE, value |-> v]
Throw(e) == [threw |-> TRUE, error |-> e]

\* an Error object: `error instanceof Error` is isError, error.message is message
ErrorObj(name, message) == [isError |-> TRUE, name |-> name, message |-> message]

\* x is truthy in a JavaScript condition
Truthy(x) ==
    CASE x.t = "undefined" -> FALSE
      [] x.t = "null" -> FALSE
      [] x.t = "number" -> x.v # 0
      [] x.t = "string" -> x.v # <<>>
      [] OTHER -> TRUE

\* x > 0  (undefined > 0 is false)
GT0(x) == x.t = "number" /\ x.v > 0

\* x || 0
Or0(x) == IF Truthy(x) THEN x ELSE Num(0)

Digit(d) == <<"0", "1", "2", "3", "4", "5", "6", "7", "8", "9">>[d + 1]

RECURSIVE Dec(_)
\* decimal text of a natural number
Dec(n) == IF n < 10 THEN <<Digit(n)>> ELSE Dec(n \div 10) \o <<Digit(n % 10)>>

\* `${x}` for a number value
NumText(x) == IF x.v < 0 THEN <<"-">> \o Dec(-x.v) ELSE Dec(x.v)

RECURSIVE Split(_, _)
\* s.split(sep) for a one-character separator
Split(s, sep) ==
    IF \A i \in 1..Len(s) : s[i] # sep
    THEN <<s>>
    ELSE LET k == CHOOSE i \in 1..Len(s) :
                      s[i] = sep /\ \A j \in 1..(i - 1) : s[j] # sep
         IN  <<SubSeq(s, 1, k - 1)>> \o Split(SubSeq(s, k + 1, Len(s)), sep)

\* Pop taking the first element, as a.shift() does
Shift(a) == a[1]

\* a.pop() of a non-empty array
Pop(a) == a[Len(a)]

\* a[i] for a 0-based index i of an array of strings
At(a, i) == IF i + 1 <= Len(a) THEN Str(a[i + 1]) ELSE Undefined

\* `${x}` for a string or undefined
Text(x) == IF x.t = "undefined" THEN <<"undefined">> ELSE x.v

\* encodeURIComponent of one token: the reserved characters are escaped
EncodeToken(t) ==
    CASE t = ":" -> "%3A"
      [] t = "/" -> "%2F"
      [] t = " " -> "%20"
      [] OTHER -> t

encodeURIComponent(s) == [i \in 1..Len(s) |-> EncodeToken(s[i])]

(****************************** getBlueskyPostUrl **************************)

\* getBlueskyPostUrl refusing a uri with fewer than five segments
getBlueskyPostUrlChecked(uri, handle) ==
    IF uri.t # "string"
    THEN Throw(ErrorObj("TypeError", <<"Cannot read properties of undefined (reading 'split')">>))
    ELSE IF Len(Split(uri.v, "/")) < 5
    THEN Throw(ErrorObj("Error", <<"Invalid AT URI">>))
    ELSE LET postId == Pop(Split(uri.v, "/"))
         IN  Ret(<<"https://bsky.app/profile/">> \o handle \o <<"/post/">> \o postId)

getBlueskyPostUrl(uri, handle) ==
    IF uri.t # "string"
    THEN Throw(ErrorObj("TypeError", <<"Cannot read properties of undefined (reading 'split')">>))
    ELSE LET postId == Pop(Split(uri.v, "/"))
         IN  Ret(<<"https://bsky.app/profile/">> \o handle \o <<"/post/">> \o postId)

(*************************** generateSocialShareUrls ***********************)

\* generateSocialShareUrls reading parts[1] and parts[3]
generateSocialShareUrlsOffByOne(url, title, blueskyUri) ==
    LET encodedUrl == encodeURIComponent(url)
        encodedTitle == encodeURIComponent(title)
        parts == Split(blueskyUri.v, "/")
        blueskyUrl ==
            IF Truthy(blueskyUri)
            THEN <<"https://bsky.app/profile/">> \o Text(At(parts, 1))
                     \o <<"/post/">> \o Text(At(parts, 3))
            ELSE <<"https://bsky.app/intent/compose?text=">>
                     \o encodeURIComponent(title \o <<" ">> \o url)
    IN  [twitter |-> <<"https://twitter.com/intent/tweet?url=">> \o encodedUrl
                         \o <<"&text=">> \o encodedTitle,
         linkedin |-> <<"https://www.linkedin.com/sharing/share-offsite/?url=">> \o encodedUrl,
         facebook |-> <<"https://www.facebook.com/sharer/sharer.php?u=">> \o encodedUrl,
         reddit |-> <<"https://www.reddit.com/submit?url=">> \o encodedUrl
                        \o <<"&title=">> \o encodedTitle,
         hackernews |-> <<"https://news.ycombinator.com/submitlink?u=">> \o encodedUrl
                            \o <<"&t=">> \o encodedTitle,
         bluesky |-> blueskyUrl]

generateSocialShareUrls(url, title, blueskyUri) ==
    LET encodedUrl == encodeURIComponent(url)
        encodedTitle == encodeURIComponent(title)
        parts == Split(blueskyUri.v, "/")
        blueskyUrl ==
            IF Truthy(blueskyUri)
            THEN <<"https://bsky.app/profile/">> \o Text(At(parts, 2))
                     \o <<"/post/">> \o Text(At(parts, 4))
            ELSE <<"https://bsky.app/intent/compose?text=">>
                     \o encodeURIComponent(title \o <<" ">> \o url)
    IN  [twitter |-> <<"https://twitter.com/intent/tweet?url=">> \o encodedUrl
                         \o <<"&text=">> \o encodedTitle,
         linkedin |-> <<"https://www.linkedin.com/sharing/share-offsite/?url=">> \o encodedUrl,
         facebook |-> <<"https://www.facebook.com/sharer/sharer.php?u=">> \o encodedUrl,
         reddit |-> <<"https://www.reddit.com/submit?url=">> \o encodedUrl
                        \o <<"&title=">> \o encodedTitle,
         hackernews |-> <<"https://news.ycombinator.com/submitlink?u=">> \o encodedUrl
                            \o <<"&t=">> \o encodedTitle,
         bluesky |-> blueskyUrl]

(********************************* rendering *******************************)

maxDepth == 3

\* <div class="comment"> / <div class="comment reply"> with its link, author,
\* text, the three counters and the nested fragment
CommentEl(isReply, url, post, nested) ==
    [el |-> "comment",
     reply |-> isReply,
     href |-> url,
     handle |-> post.author.handle,
     text |-> post.record.text,
     counts |-> <<NumText(Or0(post.replyCount)),
                  NumText(Or0(post.repostCount)),
                  NumText(Or0(post.likeCount))>>,
     nested |-> nested]

\* <div class="replies"> ... </div>
RepliesDiv(body) == [el |-> "replies", body |-> body]

\* <a class="continue-thread">Continue this thread on Bluesky</a>
ContinueLink(url) ==
    [el |-> "continue-thread", href |-> url,
     label |-> <<"Continue this thread on Bluesky">>]

\* <a class="continue-thread">View N more reply|replies on Bluesky</a>
ViewMoreLink(url, count) ==
    [el |-> "continue-thread", href |-> url,
     label |-> <<"View ">> \o NumText(count) \o <<" more ">>
               \o <<IF count.v = 1 THEN "reply" ELSE "replies">> \o <<" on Bluesky">>]

\* MoreRepliesFragment with the test replyCount >= 0 in place of replyCount > 0
MoreRepliesFragmentGe0(url, post) ==
    IF post.replyCount.t = "number" /\ post.replyCount.v >= 0
    THEN <<RepliesDiv(<<ViewMoreLink(url, post.replyCount)>>)>>
    ELSE <<>>

\* the fragment after a comment's footer when it has no fetched replies
\* (lines 158-161 and 195-198)
MoreRepliesFragment(url, post) ==
    IF GT0(post.replyCount)
    THEN <<RepliesDiv(<<ViewMoreLink(url, post.replyCount)>>)>>
    ELSE <<>>

\* HasReplies without the length test
HasRepliesDefined(comment) == comment.replies.t = "array"

\* reply.replies && reply.replies.length > 0
HasReplies(comment) == comment.replies.t = "array" /\ Len(comment.replies.v) > 0

RECURSIVE JoinAllReversed(_)
\* JoinAll with the fragments put together last to first
JoinAllReversed(rs) ==
    IF rs = <<>> THEN Ret(<<>>)
    ELSE IF Head(rs).threw THEN Head(rs)
    ELSE LET rest == JoinAllReversed(Tail(rs))
         IN  IF rest.threw THEN rest ELSE Ret(rest.value \o Head(rs).value)

RECURSIVE JoinAll(_)
\* results.join('') of the fragments a map produced; the first throw wins
JoinAll(rs) ==
    IF rs = <<>> THEN Ret(<<>>)
    ELSE IF Head(rs).threw THEN Head(rs)
    ELSE LET rest == JoinAll(Tail(rs))
         IN  IF rest.threw THEN rest ELSE Ret(Head(rs).value \o rest.value)

RECURSIVE renderReplies(_, _, _, _)

\* renderReply handing the URL of the first nested reply down as parentUrl
renderReplyChildUrl(reply, depth, limit) ==
    LET replyUrl == getBlueskyPostUrl(reply.post.uri, reply.post.author.handle)
    IN  IF replyUrl.threw THEN replyUrl
        ELSE LET nested ==
                     IF HasReplies(reply)
                     THEN renderReplies(reply.replies.v, depth + 1,
                                        getBlueskyPostUrl(reply.replies.v[1].post.uri,
                                                          reply.replies.v[1].post.author.handle).value,
                                        limit)
                     ELSE Ret(MoreRepliesFragment(replyUrl.value, reply.post))
             IN  IF nested.threw THEN nested
                 ELSE Ret(<<CommentEl(TRUE, replyUrl.value, reply.post, nested.value)>>)

\* the callback of replies.map in renderReplies
renderReply(reply, depth, limit) ==
    LET replyUrl == getBlueskyPostUrl(reply.post.uri, reply.post.author.handle)
    IN  IF replyUrl.threw THEN replyUrl
        ELSE LET nested ==
                     IF HasReplies(reply)
                     THEN renderReplies(reply.replies.v, depth + 1, replyUrl.value, limit)
                     ELSE Ret(MoreRepliesFragment(replyUrl.value, reply.post))
             IN  IF nested.threw THEN nested
                 ELSE Ret(<<CommentEl(TRUE, replyUrl.value, reply.post, nested.value)>>)

\* renderReplies with the test depth > maxDepth in place of depth >= maxDepth
renderRepliesGt(replies, depth, parentUrl, limit) ==
    IF Len(replies) = 0 THEN Ret(<<>>)
    ELSE IF depth > limit THEN Ret(<<RepliesDiv(<<ContinueLink(parentUrl)>>)>>)
    ELSE LET body == JoinAll([k \in 1..Len(replies) |-> renderReply(replies[k], depth, limit)])
         IN  IF body.threw THEN body ELSE Ret(<<RepliesDiv(body.value)>>)

renderReplies(replies, depth, parentUrl, limit) ==
    IF Len(replies) = 0 THEN Ret(<<>>)
    ELSE IF depth >= limit THEN Ret(<<RepliesDiv(<<ContinueLink(parentUrl)>>)>>)
    ELSE LET body == JoinAll([k \in 1..Len(replies) |-> renderReply(replies[k], depth, limit)])
         IN  IF body.threw THEN body ELSE Ret(<<RepliesDiv(body.value)>>)

renderComment(comment) ==
    LET postUrl == getBlueskyPostUrl(comment.post.uri, comment.post.author.handle)
    IN  IF postUrl.threw THEN postUrl
        ELSE LET nested ==
                     IF HasReplies(comment)
                     THEN renderReplies(comment.replies.v, 1, postUrl.value, maxDepth)
                     ELSE Ret(MoreRepliesFragment(postUrl.value, comment.post))
             IN  IF nested.threw THEN nested
                 ELSE Ret(<<CommentEl(FALSE, postUrl.value, comment.post, nested.value)>>)

NoComments == <<[el |-> "no-comments"]>>

\* the value renderComments assigns to commentsList.innerHTML, or its throw
renderComments(comments) ==
    IF Len(comments) = 0 THEN Ret(NoComments)
    ELSE JoinAll([k \in 1..Len(comments) |-> renderComment(comments[k])])

(****************************** reply trees ********************************)

MaxNodes == 4

Pending == [t |-> "pending"]

\* the AT URI and the handle of the k-th post of a payload
NodeUri(k) == Str(<<"a", "t", ":", "/", "/", "d", "/", "p", "/", Digit(k)>>)
NodeHandle(k) == <<"u", Digit(k)>>

\* what a payload may carry as a counter
CountChoices == {Undefined, Num(0), Num(2)}

RECURSIVE Ascending(_)
Ascending(S) ==
    IF S = {} THEN <<>>
    ELSE LET m == CHOOSE x \in S : \A y \in S : x <= y
         IN  <<m>> \o Ascending(S \ {m})

RECURSIVE BuildNode(_, _, _, _, _)
\* the BlueskyPost of node i of a tree given by its parent function; the
\* repost counter is absent and the like counters run from -1 upwards, so
\* that absent, negative, zero and positive counters all occur
BuildNode(i, n, par, rc, leafAbsent) ==
    LET kids == Ascending({j \in 1..n : par[j] = i})
    IN  [post |-> [uri |-> NodeUri(i),
                   author |-> [handle |-> NodeHandle(i)],
                   record |-> [text |-> <<"t", Digit(i)>>],
                   replyCount |-> rc[i],
                   repostCount |-> Undefined,
                   likeCount |-> Num(i - 2)],
         replies |-> IF kids = <<>>
                     THEN (IF leafAbsent THEN Undefined ELSE Arr(<<>>))
                     ELSE Arr([k \in 1..Len(kids) |->
                                  BuildNode(kids[k], n, par, rc, leafAbsent)])]

\* thread.replies of a payload with n posts; par[i] = 0 for a top-level reply
BuildReplies(n, par, rc, leafAbsent) ==
    LET tops == Ascending({j \in 1..n : par[j] = 0})
    IN  [k \in 1..Len(tops) |-> BuildNode(tops[k], n, par, rc, leafAbsent)]

(***************************** the host page *******************************)

NumContainers == 2

Parts == {"loader", "error", "list", "button"}

\* a container as the constructor sees it: its data-bluesky-uri and which of
\* the four descendants its querySelector calls find
ContainerKinds ==
    {[uri |-> TRUE, parts |-> Parts], [uri |-> FALSE, parts |-> Parts]}
        \cup {[uri |-> TRUE, parts |-> Parts \ {p}] : p \in Parts}

\* Construct without the two checks
ConstructUnchecked(container) == Ret(TRUE)

\* the constructor up to the call of initialize: what it throws, if anything
Construct(container) ==
    IF ~container.uri
    THEN Throw(ErrorObj("Error", <<"Bluesky URI is required">>))
    ELSE IF container.parts # Parts
    THEN Throw(ErrorObj("Error", <<"Required DOM elements not found">>))
    ELSE Ret(TRUE)

\* a container as CommentSection.astro emits it, before any script ran; removed
\* is empty while the container is in the document and holds the number of
\* clicks and timer ticks so far once it has been taken out
FreshView ==
    [loader |-> "", errorDiv |-> "none", commentsList |-> "none",
     errorText |-> <<>>, listHTML |-> <<>>,
     clickListeners |-> <<>>, cycles |-> <<>>, removed |-> <<>>]

Shown(display) == display # "none"

\* the step just taken ended no cycle
NoEnd == [kind |-> "none"]

\* what the three regions show
Status(v) ==
    CASE Shown(v.loader) /\ ~Shown(v.errorDiv) /\ ~Shown(v.commentsList) ->
             (IF v.loader = "" THEN "Idle" ELSE "Loading")
      [] ~Shown(v.loader) /\ ~Shown(v.errorDiv) /\ Shown(v.commentsList) -> "Rendered"
      [] ~Shown(v.loader) /\ Shown(v.errorDiv) /\ ~Shown(v.commentsList) -> "Failed"
      [] OTHER -> "Mixed"

(******************************* fetchComments *****************************)

Interval == 5

Statuses == {200, 500}

ResponseOk(status) == status >= 200 /\ status <= 299

\* response bodies: text that is not JSON, or the value the JSON text denotes
Garbage == [t |-> "garbage"]
DataNoThread == [t |-> "object", thread |-> Undefined]
DataNoReplies == [t |-> "object", thread |-> [t |-> "object", replies |-> Undefined]]
DataWith(replies) == [t |-> "object", thread |-> [t |-> "object", replies |-> Arr(replies)]]
DataOne == DataWith(BuildReplies(1, <<0>>, <<Num(0)>>, TRUE))
DataDeep ==
    DataWith(BuildReplies(5, <<0, 1, 2, 3, 0>>, <<Num(2), Num(2), Num(2), Num(0), Undefined>>, FALSE))
DataBadUri ==
    DataWith(<<[BuildNode(1, 1, <<0>>, <<Num(0)>>, TRUE) EXCEPT !.post.uri = Undefined]>>)
DataEmpty == DataWith(<<>>)
\* two replies, the second without a uri: rendering throws after the first
DataBadSecond ==
    DataWith(<<BuildNode(1, 2, <<0, 0>>, <<Num(0), Num(0)>>, TRUE),
               [BuildNode(2, 2, <<0, 0>>, <<Num(0), Num(0)>>, TRUE) EXCEPT !.post.uri = Undefined]>>)

Bodies ==
    {Garbage, Null, DataNoThread, DataNoReplies, DataEmpty, DataOne, DataBadUri, DataBadSecond}

\* how the request of one cycle can end
Outcomes ==
    {[net |-> "reject"]}
        \cup {[net |-> "response", status |-> st, body |-> Garbage] :
                 st \in {x \in Statuses : ~ResponseOk(x)}}
        \cup {[net |-> "response", status |-> st, body |-> b] :
                 st \in {x \in Statuses : ResponseOk(x)}, b \in Bodies}

\* the outcomes drawn where the page has several containers, and where time runs
PageOutcomes ==
    {[net |-> "response", status |-> 500, body |-> Garbage],
     [net |-> "response", status |-> 200, body |-> DataOne]}
TimedOutcomes == PageOutcomes

\* await response.json()
ResponseJson(body) ==
    IF body = Garbage
    THEN Throw(ErrorObj("SyntaxError", <<"Unexpected token in JSON">>))
    ELSE Ret(body)

\* data.thread?.replies || []
ThreadReplies(data) ==
    IF data.t \in {"null", "undefined"}
    THEN Throw(ErrorObj("TypeError", <<"Cannot read properties of null (reading 'thread')">>))
    ELSE LET replies == IF data.thread.t \in {"null", "undefined"}
                        THEN Undefined
                        ELSE data.thread.replies
         IN  Ret(IF Truthy(replies) THEN replies ELSE Arr(<<>>))

\* the try block from the fetch on: the new innerHTML, or what it throws
TryBlock(o) ==
    IF o.net = "reject"
    THEN Throw(ErrorObj("TypeError", <<"Failed to fetch">>))
    ELSE IF ~ResponseOk(o.status)
    THEN Throw(ErrorObj("Error", <<"HTTP error! status: ">> \o Dec(o.status)))
    ELSE LET data == ResponseJson(o.body)
         IN  IF data.threw THEN data
             ELSE LET comments == ThreadReplies(data.value)
                  IN  IF comments.threw THEN comments
                      ELSE renderComments(comments.value.v)

\* the text the catch block puts in the error region
ErrorText(error) ==
    <<"Error loading comments: ">>
        \o (IF error.isError THEN error.message ELSE <<"An unknown error occurred">>)

\* StartCycle without the line that hides the error region
StartCycleKeepsError(v, inst, src) ==
    [v EXCEPT
        !.loader = "block",
        !.commentsList = "none",
        !.cycles = Append([k \in 1..Len(v.cycles) |-> [v.cycles[k] EXCEPT !.alone = FALSE]],
                          [inst |-> inst, src |-> src, at |-> now,
                           alone |-> v.cycles = <<>>, passedBy |-> <<>>])]

\* fetchComments up to its first await: the regions are reset and the request
\* is in flight.  The cycle keeps when it started (at), whether no other cycle
\* of the view has been in flight with it (alone) and the outcome of the last
\* cycle that started after it and has rendered already (passedBy, empty when
\* there is none).
StartCycle(v, inst, src) ==
    [v EXCEPT
        !.loader = "block",
        !.errorDiv = "none",
        !.commentsList = "none",
        !.cycles = Append([k \in 1..Len(v.cycles) |-> [v.cycles[k] EXCEPT !.alone = FALSE]],
                          [inst |-> inst, src |-> src, at |-> now,
                           alone |-> v.cycles = <<>>, passedBy |-> <<>>])]

Without(seq, k) == SubSeq(seq, 1, k - 1) \o SubSeq(seq, k + 1, Len(seq))

\* FinishCycle with a response dropped once a cycle started later has rendered
FinishCycleIfCurrent(v, k, o) ==
    LET r == TryBlock(o)
        rest == Without([j \in 1..Len(v.cycles) |->
                            IF j < k /\ ~r.threw
                            THEN [v.cycles[j] EXCEPT !.passedBy = <<o>>]
                            ELSE v.cycles[j]], k)
        done == [v EXCEPT !.cycles = rest]
    IN  IF v.cycles[k].passedBy # <<>>
        THEN done
        ELSE IF ~r.threw
        THEN [done EXCEPT !.listHTML = r.value,
                          !.loader = "none",
                          !.commentsList = "block"]
        ELSE [done EXCEPT !.loader = "none",
                          !.errorDiv = "block",
                          !.errorText = ErrorText(r.error)]

\* FinishCycle with renderComments writing the list comment by comment, so
\* that a throw leaves the comments rendered before it
FinishCyclePiecewise(v, k, o) ==
    LET r == TryBlock(o)
        rest == Without([j \in 1..Len(v.cycles) |->
                            IF j < k /\ ~r.threw
                            THEN [v.cycles[j] EXCEPT !.passedBy = <<o>>]
                            ELSE v.cycles[j]], k)
        done == [v EXCEPT !.cycles = rest]
        parsed == o.net = "response" /\ ResponseOk(o.status)
                      /\ ~ResponseJson(o.body).threw
                      /\ ~ThreadReplies(ResponseJson(o.body).value).threw
        cs == ThreadReplies(ResponseJson(o.body).value).value.v
        bad == {i \in 1..Len(cs) : renderComment(cs[i]).threw}
        first == CHOOSE i \in bad : \A j \in bad : i <= j
        partial == JoinAll([i \in 1..(first - 1) |-> renderComment(cs[i])]).value
    IN  IF ~r.threw
        THEN [done EXCEPT !.listHTML = r.value,
                          !.loader = "none",
                          !.commentsList = "block"]
        ELSE [done EXCEPT !.listHTML = IF parsed THEN partial ELSE @,
                          !.loader = "none",
                          !.errorDiv = "block",
                          !.errorText = ErrorText(r.error)]

\* FinishCycle with the catch block leaving the loader as it is
FinishCycleLoaderKept(v, k, o) ==
    LET r == TryBlock(o)
        rest == Without([j \in 1..Len(v.cycles) |->
                            IF j < k /\ ~r.threw
                            THEN [v.cycles[j] EXCEPT !.passedBy = <<o>>]
                            ELSE v.cycles[j]], k)
        done == [v EXCEPT !.cycles = rest]
    IN  IF ~r.threw
        THEN [done EXCEPT !.listHTML = r.value,
                          !.loader = "none",
                          !.commentsList = "block"]
        ELSE [done EXCEPT !.errorDiv = "block",
                          !.errorText = ErrorText(r.error)]

\* FinishCycle with the catch block emptying the list region
FinishCycleClears(v, k, o) ==
    LET r == TryBlock(o)
        rest == Without([j \in 1..Len(v.cycles) |->
                            IF j < k /\ ~r.threw
                            THEN [v.cycles[j] EXCEPT !.passedBy = <<o>>]
                            ELSE v.cycles[j]], k)
        done == [v EXCEPT !.cycles = rest]
    IN  IF ~r.threw
        THEN [done EXCEPT !.listHTML = r.value,
                          !.loader = "none",
                          !.commentsList = "block"]
        ELSE [done EXCEPT !.listHTML = <<>>,
                          !.loader = "none",
                          !.errorDiv = "block",
                          !.errorText = ErrorText(r.error)]

\* fetchComments from the settling of its request to its end, for the k-th
\* cycle in flight of the view
FinishCycle(v, k, o) ==
    LET r == TryBlock(o)
        rest == Without([j \in 1..Len(v.cycles) |->
                            IF j < k /\ ~r.threw
                            THEN [v.cycles[j] EXCEPT !.passedBy = <<o>>]
                            ELSE v.cycles[j]], k)
        done == [v EXCEPT !.cycles = rest]
    IN  IF ~r.threw
        THEN [done EXCEPT !.listHTML = r.value,
                          !.loader = "none",
                          !.commentsList = "block"]
        ELSE [done EXCEPT !.loader = "none",
                          !.errorDiv = "block",
                          !.errorText = ErrorText(r.error)]

\* ResumeInitialize with a failed initial cycle ending initialize
ResumeInitializeOnSuccess(timers, cy, o) ==
    IF cy.src = "initial" /\ ~TryBlock(o).threw
    THEN timers \cup {[inst |-> cy.inst, mounted |-> cy.at, ticks |-> 0,
                        due |-> now + Interval]}
    ELSE timers

\* ResumeInitialize with the timer registered at the end of whichever cycle
\* of the instance ends first
ResumeInitializeAnyCycle(timers, cy, o) ==
    IF \A iv \in timers : iv.inst # cy.inst
    THEN timers \cup {[inst |-> cy.inst, mounted |-> cy.at, ticks |-> 0,
                        due |-> now + Interval]}
    ELSE timers

\* initialize after `await this.fetchComments()`: the timer is registered
ResumeInitialize(timers, cy, o) ==
    IF cy.src = "initial"
    THEN timers \cup {[inst |-> cy.inst, mounted |-> cy.at, ticks |-> 0,
                        due |-> now + Interval]}
    ELSE timers

\* initialize up to its await: the click listener, then the initial cycle
initialize(v, inst) ==
    StartCycle([v EXCEPT !.clickListeners = Append(@, inst)], inst, "initial")

RECURSIVE forEachContainer(_, _, _)
\* querySelectorAll('.comments-section').forEach from the k-th container on
forEachContainer(k, views, run) ==
    IF k > Len(page) THEN [views |-> views, threw |-> FALSE]
    ELSE IF views[k].removed # <<>> THEN forEachContainer(k + 1, views, run)
    ELSE LET c == Construct(page[k])
         IN  IF c.threw
             THEN [views |-> views, threw |-> TRUE, error |-> c.error]
             ELSE forEachContainer(k + 1, [views EXCEPT ![k] = initialize(@, <<run, k>>)], run)

initializeCommentSections(views, run) == forEachContainer(1, views, run)

(******************************** the actions ******************************)

MaxTriggers == 1

\* evaluating the module: it initialises at once, or registers for
\* DOMContentLoaded while the document is still loading
ModuleBody(views) ==
    IF readyState = "loading"
    THEN [views |-> views, threw |-> FALSE, listener |-> "registered"]
    ELSE LET r == initializeCommentSections(views, "module")
         IN  IF r.threw
             THEN [views |-> r.views, threw |-> TRUE, error |-> r.error, listener |-> "none"]
             ELSE [views |-> r.views, threw |-> FALSE, listener |-> "none"]

\* the component script runs: its import evaluates the module, then it calls
\* initializeCommentSections(); an exception in the module ends the script
ComponentScript ==
    /\ script = "start"
    /\ LET m == ModuleBody(view)
           r == IF m.threw THEN m ELSE initializeCommentSections(m.views, "call")
       IN  /\ view' = r.views
           /\ dclListener' = m.listener
           /\ script' = IF r.threw THEN "failed" ELSE "done"
           /\ uncaught' = IF r.threw
                          THEN uncaught \cup {[from |-> "script", error |-> r.error]}
                          ELSE uncaught
    /\ last' = NoEnd
    /\ UNCHANGED <<page, readyState, intervals, extra, now, rvars>>

\* the document finishes loading and the registered listener runs
DOMContentLoaded ==
    /\ script \in {"done", "failed"}
    /\ dclListener = "registered"
    /\ LET r == initializeCommentSections(view, "module")
       IN  /\ view' = r.views
           /\ uncaught' = IF r.threw
                          THEN uncaught \cup {[from |-> "DOMContentLoaded", error |-> r.error]}
                          ELSE uncaught
    /\ dclListener' = "fired"
    /\ readyState' = "interactive"
    /\ last' = NoEnd
    /\ UNCHANGED <<page, script, intervals, extra, now, rvars>>

RECURSIVE StartAll(_, _, _)
\* the click listeners run one after the other, each up to its await
StartAll(v, insts, src) ==
    IF insts = <<>> THEN v
    ELSE StartAll(StartCycle(v, Head(insts), src), Tail(insts), src)

\* Click with one listener shared by the page: every initialised container
\* starts its cycles
ClickEvery(c, limit) ==
    /\ c \in 1..Len(page)
    /\ view[c].removed = <<>>
    /\ view[c].clickListeners # <<>>
    /\ extra < limit
    /\ view' = [b \in 1..Len(page) |-> StartAll(view[b], view[b].clickListeners, "click")]
    /\ extra' = extra + 1
    /\ last' = NoEnd
    /\ UNCHANGED <<page, readyState, script, dclListener, intervals, uncaught, now, rvars>>

\* the reader clicks the refresh button of container c
Click(c, limit) ==
    /\ c \in 1..Len(page)
    /\ view[c].removed = <<>>
    /\ view[c].clickListeners # <<>>
    /\ extra < limit
    /\ view' = [view EXCEPT ![c] = StartAll(@, @.clickListeners, "click")]
    /\ extra' = extra + 1
    /\ last' = NoEnd
    /\ UNCHANGED <<page, readyState, script, dclListener, intervals, uncaught, now, rvars>>

\* TimerTick with the callback doing nothing once the container is out of
\* the document
TimerTickWhileAttached(iv, limit) ==
    /\ iv \in intervals
    /\ view[iv.inst[2]].removed = <<>>
    /\ extra < limit
    /\ view' = [view EXCEPT ![iv.inst[2]] = StartCycle(@, iv.inst, "timer")]
    /\ extra' = extra + 1
    /\ last' = NoEnd
    /\ UNCHANGED <<page, readyState, script, dclListener, intervals, uncaught, now, rvars>>

\* a registered timer runs its callback at some later time
TimerTick(iv, limit) ==
    /\ iv \in intervals
    /\ extra < limit
    /\ view' = [view EXCEPT ![iv.inst[2]] = StartCycle(@, iv.inst, "timer")]
    /\ extra' = extra + 1
    /\ last' = NoEnd
    /\ UNCHANGED <<page, readyState, script, dclListener, intervals, uncaught, now, rvars>>

\* the request of the k-th cycle in flight of container c settles with outcome
\* o and fetchComments runs to its end; an initial cycle resumes initialize
Settle(c, k, o) ==
    /\ c \in 1..Len(page)
    /\ k \in 1..Len(view[c].cycles)
    /\ view' = [view EXCEPT ![c] = FinishCycle(@, k, o)]
    /\ intervals' = ResumeInitialize(intervals, view[c].cycles[k], o)
    /\ last' = [kind |-> IF TryBlock(o).threw THEN "failed" ELSE "rendered",
                c |-> c, outcome |-> o, cycle |-> view[c].cycles[k]]
    /\ UNCHANGED <<page, readyState, script, dclListener, extra, uncaught, now, rvars>>

\* the host page takes container c out of the document; no code of the
\* component runs
RemoveContainer(c) ==
    /\ c \in 1..Len(page)
    /\ script # "start"
    /\ view[c].removed = <<>>
    /\ view' = [view EXCEPT ![c].removed = <<extra>>]
    /\ last' = NoEnd
    /\ UNCHANGED <<page, readyState, script, dclListener, intervals, extra, uncaught,
                   now, rvars>>

MaxTime == 7

\* a registered timer runs its callback when its interval has elapsed
TimerDue(iv) ==
    /\ iv \in intervals
    /\ iv.due = now
    /\ view' = [view EXCEPT ![iv.inst[2]] = StartCycle(@, iv.inst, "timer")]
    /\ intervals' = (intervals \ {iv})
                        \cup {[iv EXCEPT !.ticks = @ + 1, !.due = now + Interval]}
    /\ last' = NoEnd
    /\ UNCHANGED <<page, readyState, script, dclListener, extra, uncaught, now, rvars>>

\* a minute passes; a timer that is due runs first
Tick ==
    /\ script # "start"
    /\ now < MaxTime
    /\ \A iv \in intervals : iv.due > now
    /\ now' = now + 1
    /\ last' = NoEnd
    /\ UNCHANGED <<page, readyState, script, dclListener, view, intervals, extra,
                   uncaught, rvars>>

RenderIdle == rInput = <<>> /\ rOutput = Pending

PageInit(pages) ==
    /\ page \in pages
    /\ readyState \in {"loading", "interactive"}
    /\ script = "start"
    /\ dclListener = "none"
    /\ view = [c \in 1..Len(page) |-> FreshView]
    /\ intervals = {}
    /\ extra = 0
    /\ uncaught = {}
    /\ last = NoEnd
    /\ now = 0
    /\ RenderIdle

\* a page with one container, as the post layout produces
Init == PageInit([1..1 -> ContainerKinds])

Next ==
    \/ ComponentScript
    \/ DOMContentLoaded
    \/ \E c \in 1..NumContainers : Click(c, MaxTriggers)
    \/ \E iv \in intervals : TimerTick(iv, MaxTriggers)
    \/ \E c \in 1..NumContainers, k \in 1..(2 + 2 * MaxTriggers), o \in Outcomes :
           Settle(c, k, o)

Spec == Init /\ [][Next]_vars

\* Spec where the scripts run and every request in flight settles in the end
SpecLive ==
    /\ Init
    /\ [][Next]_vars
    /\ WF_vars(ComponentScript)
    /\ WF_vars(DOMContentLoaded)
    /\ WF_vars(\E c \in 1..NumContainers, k \in 1..(2 + 2 * MaxTriggers), o \in Outcomes :
                   Settle(c, k, o))

\* the page whose container may be taken out of the document
NextTeardown ==
    \/ ComponentScript
    \/ DOMContentLoaded
    \/ \E c \in 1..NumContainers : RemoveContainer(c)
    \/ \E iv \in intervals : TimerTick(iv, MaxTriggers)
    \/ \E c \in 1..NumContainers, k \in 1..(2 + 2 * MaxTriggers), o \in PageOutcomes :
           Settle(c, k, o)

SpecTeardown == Init /\ [][NextTeardown]_vars

\* the same page with a clock and no click: timers run when they are due
NextTimed ==
    \/ ComponentScript
    \/ DOMContentLoaded
    \/ \E iv \in intervals : TimerDue(iv)
    \/ Tick
    \/ \E c \in 1..NumContainers, k \in 1..(2 + 2 * MaxTime), o \in TimedOutcomes :
           Settle(c, k, o)

SpecTimed == Init /\ [][NextTimed]_vars

\* the start-up of a page with several containers: the scripts run and the
\* initial requests settle
InitPage == PageInit(UNION {[1..n -> ContainerKinds] : n \in 1..NumContainers})

NextPage ==
    \/ ComponentScript
    \/ DOMContentLoaded
    \/ \E c \in 1..NumContainers, k \in 1..2, o \in PageOutcomes : Settle(c, k, o)

SpecPage == InitPage /\ [][NextPage]_vars

\* a page with two containers, each complete, without its identifier or
\* without its refresh button, with clicks and timer ticks
PairKinds ==
    {[uri |-> TRUE, parts |-> Parts],
     [uri |-> FALSE, parts |-> Parts],
     [uri |-> TRUE, parts |-> Parts \ {"button"}]}

InitPair == PageInit([1..2 -> PairKinds])

NextPair ==
    \/ ComponentScript
    \/ DOMContentLoaded
    \/ \E c \in 1..2 : Click(c, MaxTriggers)
    \/ \E iv \in intervals : TimerTick(iv, MaxTriggers)
    \/ \E c \in 1..2, k \in 1..(2 + 2 * MaxTriggers), o \in PageOutcomes : Settle(c, k, o)

SpecPair == InitPair /\ [][NextPair]_vars

(******************************* SpecRender ********************************)

PageIdle ==
    /\ page = <<>>
    /\ readyState = "interactive"
    /\ script = "start"
    /\ dclListener = "none"
    /\ view = <<>>
    /\ intervals = {}
    /\ extra = 0
    /\ uncaught = {}
    /\ last = NoEnd
    /\ now = 0

RenderInit ==
    /\ \E n \in 0..MaxNodes :
         \E par \in [1..n -> 0..MaxNodes], rc \in [1..n -> CountChoices],
            leafAbsent \in BOOLEAN :
             /\ \A i \in 1..n : par[i] < i
             /\ rInput = BuildReplies(n, par, rc, leafAbsent)
    /\ rOutput = Pending
    /\ PageIdle

Render ==
    /\ script = "start" /\ page = <<>>
    /\ rOutput = Pending
    /\ rOutput' = renderComments(rInput)
    /\ UNCHANGED <<rInput, pvars>>

RenderNext == Render

SpecRender == RenderInit /\ [][RenderNext]_vars

(************************** SpecUrl and SpecShare **************************)

MaxUriLen == 3

UriTokens == {"a", "b", "/"}

RECURSIVE Strings(_)
\* the strings of at most n tokens
Strings(n) ==
    IF n = 0 THEN {<<>>}
    ELSE LET S == Strings(n - 1)
         IN  S \cup {Append(x, t) : x \in {y \in S : Len(y) = n - 1}, t \in UriTokens}

\* at://did:plc:abc123/app.bsky.feed.post/xyz789, and the same with one
\* more segment
ExampleUri ==
    <<"at:", "/", "/", "did:plc:abc123", "/", "app.bsky.feed.post", "/", "xyz789">>
LongUri == ExampleUri \o <<"/", "x">>

Uris == Strings(MaxUriLen) \cup {ExampleUri, LongUri}

Handles == {<<"alice.bsky.social">>, <<"u", "1">>}

Titles == {<<"Hello", " ", "World">>, <<"a">>}

PageUrls ==
    {<<"https", ":", "/", "/", "tskulbru.dev", "/", "posts", "/", "x">>,
     <<"https", ":", "/", "/", "tskulbru.dev", "/">>}

UrlInit ==
    /\ rInput \in [uri : {Str(u) : u \in Uris}, handle : Handles]
    /\ rOutput = <<>>
    /\ PageIdle

\* getBlueskyPostUrl is called with the arguments, twice at most
MakeUrl ==
    /\ script = "start" /\ page = <<>>
    /\ Len(rOutput) < 2
    /\ rOutput' = Append(rOutput, getBlueskyPostUrl(rInput.uri, rInput.handle))
    /\ UNCHANGED <<rInput, pvars>>

UrlNext == MakeUrl

SpecUrl == UrlInit /\ [][UrlNext]_vars

ShareInit ==
    /\ rInput \in [url : PageUrls, title : Titles,
                    blueskyUri : {Undefined} \cup {Str(u) : u \in Uris}]
    /\ rOutput = Pending
    /\ PageIdle

\* the post layout computes shareUrls
Share ==
    /\ script = "start" /\ page = <<>>
    /\ rOutput = Pending
    /\ rOutput' = generateSocialShareUrls(rInput.url, rInput.title, rInput.blueskyUri)
    /\ UNCHANGED <<rInput, pvars>>

ShareNext == Share

SpecShare == ShareInit /\ [][ShareNext]_vars

(************************ reading a payload and a fragment *****************)

RECURSIVE Posts(_, _)
\* the posts of a reply array with their depth, top-level replies at depth d
Posts(replies, d) ==
    IF replies = <<>> THEN <<>>
    ELSE LET c == Head(replies)
         IN  <<[node |-> c, depth |-> d]>>
             \o (IF c.replies.t = "array" THEN Posts(c.replies.v, d + 1) ELSE <<>>)
             \o Posts(Tail(replies), d)

RECURSIVE Elements(_)
\* every element of a fragment, in document order
Elements(html) ==
    IF html = <<>> THEN <<>>
    ELSE LET e == Head(html)
         IN  <<e>>
             \o (CASE e.el = "comment" -> Elements(e.nested)
                   [] e.el = "replies" -> Elements(e.body)
                   [] OTHER -> <<>>)
             \o Elements(Tail(html))

\* the web URL of a post whose AT URI ends in a one-character record key
WebUrl(post) ==
    <<"https://bsky.app/profile/">> \o post.author.handle
        \o <<"/post/", post.uri.v[Len(post.uri.v)]>>

\* how many elements of class cls in the fragment link to url
HowMany(html, cls, url) ==
    LET es == Elements(html)
    IN  Cardinality({i \in 1..Len(es) : es[i].el = cls /\ es[i].href = url})

\* the links directly inside the replies block of the comment element for url
LinksUnder(html, url) ==
    LET es == Elements(html)
        own == {i \in 1..Len(es) : es[i].el = "comment" /\ es[i].href = url}
    IN  UNION {UNION {{<<i, k, j>> : j \in {j \in 1..Len(es[i].nested[k].body) :
                                  es[i].nested[k].body[j].el = "continue-thread"}} :
                      k \in 1..Len(es[i].nested)} :
               i \in own}

HasChildren(node) == node.replies.t = "array" /\ node.replies.v # <<>>

\* C1: renderComments renders every post of the reply tree at depth 1..3
\* exactly once and no post at depth 4 or more (top-level replies are depth 1).
C1_RendersExactlyToDepth ==
    rOutput # Pending =>
        /\ ~rOutput.threw
        /\ LET ps == Posts(rInput, 1)
               es == Elements(rOutput.value)
           IN  /\ \A i \in 1..Len(ps) :
                     HowMany(rOutput.value, "comment", WebUrl(ps[i].node.post))
                         = IF ps[i].depth <= 3 THEN 1 ELSE 0
               /\ \A j \in 1..Len(es) :
                     es[j].el = "comment" =>
                         \E i \in 1..Len(ps) : es[j].href = WebUrl(ps[i].node.post)

\* a rendered tree with a post at depth 4 under a post at depth 3
C1_Witness ==
    /\ rOutput # Pending
    /\ LET ps == Posts(rInput, 1)
       IN  \E i \in 1..Len(ps) : ps[i].depth = 4

\* C2: a rendered post at depth 3 gets exactly one continuation link, placed in
\* its own replies block, when it has a fetched child or replyCount > 0 (one
\* when both hold), and none when it has no child and replyCount is 0 or absent.
C2_BoundaryLink ==
    rOutput # Pending =>
        LET ps == Posts(rInput, 1)
        IN  \A i \in 1..Len(ps) :
                ps[i].depth = 3 =>
                    LET n == ps[i].node
                        want == IF HasChildren(n)
                                   \/ (n.post.replyCount.t = "number" /\ n.post.replyCount.v > 0)
                                THEN 1 ELSE 0
                    IN  /\ HowMany(rOutput.value, "continue-thread", WebUrl(n.post)) = want
                        /\ Cardinality(LinksUnder(rOutput.value, WebUrl(n.post))) = want

\* a rendered post at depth 3 with a fetched child and replyCount > 0
C2_Witness ==
    /\ rOutput # Pending
    /\ LET ps == Posts(rInput, 1)
       IN  \E i \in 1..Len(ps) :
               /\ ps[i].depth = 3
               /\ HasChildren(ps[i].node)
               /\ ps[i].node.post.replyCount = Num(2)

\* C13: each of the three counters of every rendered comment is a non-empty
\* string of decimal digits, so a non-negative integer, never omitted.
C13_CountersNonNegative ==
    (rOutput # Pending /\ ~rOutput.threw) =>
        LET es == Elements(rOutput.value)
        IN  \A j \in 1..Len(es) :
                es[j].el = "comment" =>
                    /\ Len(es[j].counts) = 3
                    /\ \A k \in 1..3 :
                           /\ es[j].counts[k] # <<>>
                           /\ \A d \in 1..Len(es[j].counts[k]) :
                                  es[j].counts[k][d] \in
                                      {"0", "1", "2", "3", "4", "5", "6", "7", "8", "9"}

RECURSIVE InOrder(_, _, _)
\* the comment elements of a fragment are those of the replies, in the order
\* of the replies, and so at every rendered level below
InOrder(replies, html, depth) ==
    LET cs == SelectSeq(html, LAMBDA e : e.el = "comment")
    IN  /\ Len(cs) = Len(replies)
        /\ \A k \in 1..Len(replies) :
               /\ cs[k].href = WebUrl(replies[k].post)
               /\ cs[k].handle = replies[k].post.author.handle
               /\ (HasChildren(replies[k]) /\ depth < 3) =>
                      /\ Len(cs[k].nested) = 1
                      /\ cs[k].nested[1].el = "replies"
                      /\ InOrder(replies[k].replies.v, cs[k].nested[1].body, depth + 1)

\* C16: at every rendered level the comment elements follow one another in
\* the order their posts have in the replies array of the payload.
C16_SiblingOrderKept ==
    (rOutput # Pending /\ rInput # <<>>) =>
        /\ ~rOutput.threw
        /\ InOrder(rInput, rOutput.value, 1)

\* a rendered payload with two top-level replies, one of them with two
\* replies of its own
C16_Witness ==
    /\ rOutput # Pending
    /\ Len(rInput) >= 2
    /\ \E k \in 1..Len(rInput) : HasChildren(rInput[k]) /\ Len(rInput[k].replies.v) >= 2

\* the continuation links directly inside the replies blocks of a comment element
OwnLinks(e) ==
    UNION {{e.nested[k].body[j] : j \in {j \in 1..Len(e.nested[k].body) :
                                       e.nested[k].body[j].el = "continue-thread"}} :
           k \in {k \in 1..Len(e.nested) : e.nested[k].el = "replies"}}

\* C21: the continuation link of a rendered post at depth 3 that has fetched
\* replies is the 'continue this thread' link with the post's own web URL: it
\* stands in the post's own element, and no continuation link anywhere has a
\* URL other than that of the element it stands in.
C21_LinkToOwnUrl ==
    rOutput # Pending =>
        LET ps == Posts(rInput, 1)
            es == Elements(rOutput.value)
        IN  /\ \A j \in 1..Len(es) :
                   es[j].el = "comment" => \A a \in OwnLinks(es[j]) : a.href = es[j].href
            /\ \A i \in 1..Len(ps) :
                   (ps[i].depth = 3 /\ HasChildren(ps[i].node)) =>
                       \E j \in 1..Len(es) :
                           /\ es[j].el = "comment"
                           /\ es[j].href = WebUrl(ps[i].node.post)
                           /\ OwnLinks(es[j]) =
                                  {[el |-> "continue-thread",
                                    href |-> WebUrl(ps[i].node.post),
                                    label |-> <<"Continue this thread on Bluesky">>]}

\* a rendered chain of four posts: the post at depth 3 has a parent, a
\* fetched reply and the thread root above it
C21_Witness ==
    /\ rOutput # Pending
    /\ LET ps == Posts(rInput, 1)
       IN  \E i \in 1..Len(ps) :
               /\ ps[i].depth = 3
               /\ HasChildren(ps[i].node)
               /\ ps[i].node.post.replyCount = Num(0)

\* C29: a rendered post at depth 1 or 2 has exactly one continuation link,
\* 'View N more replies on Bluesky' with its own URL, when the payload has no
\* replies for it and its replyCount is above 0; otherwise it has none, and
\* when it has fetched replies each of them is rendered inside its element.
C29_ViewMoreAboveBoundary ==
    rOutput # Pending =>
        LET ps == Posts(rInput, 1)
            es == Elements(rOutput.value)
        IN  \A i \in 1..Len(ps) :
                ps[i].depth < 3 =>
                    LET n == ps[i].node
                        own == {j \in 1..Len(es) :
                                   es[j].el = "comment" /\ es[j].href = WebUrl(n.post)}
                    IN  /\ Cardinality(own) = 1
                        /\ \A j \in own :
                               IF HasChildren(n)
                               THEN /\ OwnLinks(es[j]) = {}
                                    /\ \A k \in 1..Len(n.replies.v) :
                                           \E b \in 1..Len(es[j].nested[1].body) :
                                               /\ es[j].nested[1].body[b].el = "comment"
                                               /\ es[j].nested[1].body[b].href
                                                      = WebUrl(n.replies.v[k].post)
                               ELSE IF n.post.replyCount.t = "number" /\ n.post.replyCount.v > 0
                               THEN OwnLinks(es[j]) =
                                        {[el |-> "continue-thread",
                                          href |-> WebUrl(n.post),
                                          label |-> <<"View ">> \o Dec(n.post.replyCount.v)
                                                       \o <<" more ", "replies", " on Bluesky">>]}
                               ELSE es[j].nested = <<>>
                        /\ HowMany(rOutput.value, "continue-thread", WebUrl(n.post))
                               = IF ~HasChildren(n) /\ n.post.replyCount.t = "number"
                                       /\ n.post.replyCount.v > 0
                                 THEN 1 ELSE 0

\* a rendered payload with a post at depth 2 that has replyCount 2 and an
\* empty replies array, and a post at depth 1 with fetched replies and
\* replyCount 2
C29_Witness ==
    /\ rOutput # Pending
    /\ LET ps == Posts(rInput, 1)
       IN  /\ \E i \in 1..Len(ps) :
                  /\ ps[i].depth = 2
                  /\ ps[i].node.replies = Arr(<<>>)
                  /\ ps[i].node.post.replyCount = Num(2)
           /\ \E i \in 1..Len(ps) :
                  /\ ps[i].depth = 1
                  /\ HasChildren(ps[i].node)
                  /\ ps[i].node.post.replyCount = Num(2)

(*************************** properties of the URLs ************************)

\* the positions of '/' in s
Slashes(s) == {i \in 1..Len(s) : s[i] = "/"}

\* the n-th '/'-separated segment of s, for n from 1 to the number of segments
SegmentAt(s, n) ==
    LET from == IF n = 1 THEN 0
                ELSE CHOOSE i \in Slashes(s) :
                         Cardinality({j \in Slashes(s) : j < i}) = n - 2
        to == IF n = Cardinality(Slashes(s)) + 1 THEN Len(s) + 1
              ELSE CHOOSE i \in Slashes(s) :
                       Cardinality({j \in Slashes(s) : j < i}) = n - 1
    IN  SubSeq(s, from + 1, to - 1)

\* the part of s after its last '/', all of s when it has none
TrailingSegment(s) == SegmentAt(s, Cardinality(Slashes(s)) + 1)

\* C14: every call of getBlueskyPostUrl(uri, handle) returns
\* 'https://bsky.app/profile/' + handle + '/post/' + the part of uri after
\* its last '/', so two calls with the same arguments return the same URL;
\* the example identifier and alice.bsky.social give
\* https://bsky.app/profile/alice.bsky.social/post/xyz789.
C14_UrlFromTrailingSegment ==
    /\ \A i \in 1..Len(rOutput) :
           rOutput[i] = [threw |-> FALSE,
                         value |-> <<"https://bsky.app/profile/">> \o rInput.handle
                                       \o <<"/post/">> \o TrailingSegment(rInput.uri.v)]
    /\ \A i, j \in 1..Len(rOutput) : rOutput[i] = rOutput[j]
    /\ (rInput.uri.v = ExampleUri /\ rInput.handle = <<"alice.bsky.social">>) =>
           \A i \in 1..Len(rOutput) :
               rOutput[i].value =
                   <<"https://bsky.app/profile/", "alice.bsky.social", "/post/", "xyz789">>

\* the function has been called twice on the example
C14_Witness ==
    /\ Len(rOutput) = 2
    /\ rInput.uri.v = ExampleUri
    /\ rInput.handle = <<"alice.bsky.social">>

\* C15: no call of getBlueskyPostUrl on a string throws: an empty uri and a
\* uri ending in '/' give a URL with an empty post segment, a uri without '/'
\* gives a URL whose post segment is the whole uri.
C15_UrlNeverRaises ==
    \A i \in 1..Len(rOutput) :
        /\ ~rOutput[i].threw
        /\ SubSeq(rOutput[i].value, 1, 1 + Len(rInput.handle) + 1)
               = <<"https://bsky.app/profile/">> \o rInput.handle \o <<"/post/">>
        /\ (rInput.uri.v = <<>> \/ Len(rInput.uri.v) \in Slashes(rInput.uri.v)) =>
               Len(rOutput[i].value) = 1 + Len(rInput.handle) + 1
        /\ Slashes(rInput.uri.v) = {} =>
               SubSeq(rOutput[i].value, Len(rInput.handle) + 3, Len(rOutput[i].value))
                   = rInput.uri.v

\* the function has been called on a uri of two segments that ends in '/'
C15_Witness ==
    /\ rOutput # <<>>
    /\ rInput.uri.v = <<"a", "/">>
    /\ ~rOutput[1].threw

\* decodeURIComponent of one token
DecodeToken(t) ==
    CASE t = "%3A" -> ":"
      [] t = "%2F" -> "/"
      [] t = "%20" -> " "
      [] OTHER -> t

\* C20: with a blueskyUri of at least five segments the bluesky share URL is
\* 'https://bsky.app/profile/' + its third segment + '/post/' + its fifth
\* segment, which is the trailing segment when the uri has exactly five;
\* without a blueskyUri it is the compose-intent URL whose text decodes to
\* title + ' ' + url; the other five URLs are those computed without a
\* blueskyUri.
C20_ShareUrls ==
    rOutput # Pending =>
        LET u == rInput.blueskyUri
            n == Cardinality(Slashes(u.v)) + 1
            none == generateSocialShareUrls(rInput.url, rInput.title, Undefined)
        IN  /\ (u.t = "string" /\ n >= 5) =>
                   rOutput.bluesky = <<"https://bsky.app/profile/">> \o SegmentAt(u.v, 3)
                                         \o <<"/post/">> \o SegmentAt(u.v, 5)
            /\ (u.t = "string" /\ n = 5) =>
                   rOutput.bluesky = <<"https://bsky.app/profile/">> \o SegmentAt(u.v, 3)
                                         \o <<"/post/">> \o TrailingSegment(u.v)
            /\ u.t = "undefined" =>
                   /\ rOutput.bluesky[1] = "https://bsky.app/intent/compose?text="
                   /\ [i \in 1..(Len(rOutput.bluesky) - 1) |->
                          DecodeToken(rOutput.bluesky[i + 1])]
                          = rInput.title \o <<" ">> \o rInput.url
                   /\ \A i \in 2..Len(rOutput.bluesky) :
                          rOutput.bluesky[i] \notin {":", "/", " "}
            /\ \A f \in {"twitter", "linkedin", "facebook", "reddit", "hackernews"} :
                   rOutput[f] = none[f]

\* the share URLs of a post whose blueskyUri is the example identifier
C20_Witness ==
    /\ rOutput # Pending
    /\ rInput.blueskyUri = Str(ExampleUri)
    /\ rOutput.bluesky = <<"https://bsky.app/profile/", "did:plc:abc123", "/post/", "xyz789">>

(************************ properties of the cycles *************************)

\* the timers of container c
TimersOf(c) == {iv \in intervals : iv.inst[2] = c}

\* piece occurs in text
Contains(text, piece) ==
    \E i \in 0..(Len(text) - Len(piece)) : SubSeq(text, i + 1, i + Len(piece)) = piece

\* the cause text of a request outcome that makes the cycle fail
Cause(o) ==
    CASE o.net = "reject" -> <<"Failed to fetch">>
      [] o.net = "response" /\ o.status = 500 -> <<"5", "0", "0">>
      [] o.net = "response" /\ o.status = 200 /\ o.body = Garbage ->
             <<"Unexpected token in JSON">>
      [] o.net = "response" /\ o.status = 200 /\ o.body = Null ->
             <<"Cannot read properties of null (reading 'thread')">>
      [] o.net = "response" /\ o.status = 200 /\ o.body \in {DataBadUri, DataBadSecond} ->
             <<"Cannot read properties of undefined (reading 'split')">>
      [] OTHER -> <<>>

\* the outcome is a 2xx response whose payload renders
Renders(o) ==
    /\ o.net = "response"
    /\ o.status = 200
    /\ o.body \in {DataNoThread, DataNoReplies, DataEmpty, DataOne}

\* C3: cycles of a view overlap and none is cancelled: when a cycle's response
\* arrives after a cycle started later has rendered, the response is still
\* applied and the list region then holds the earlier cycle's content.
C3_EarlierResponseStillApplied ==
    (last.kind = "rendered" /\ last.cycle.passedBy # <<>>) =>
        /\ view[last.c].listHTML = TryBlock(last.outcome).value
        /\ Shown(view[last.c].commentsList)

\* an earlier-started cycle has just replaced the different content that a
\* later-started cycle had rendered
C3_Witness ==
    /\ last.kind = "rendered"
    /\ last.cycle.passedBy # <<>>
    /\ TryBlock(last.cycle.passedBy[1]).value # view[last.c].listHTML
    /\ view[last.c].listHTML = TryBlock(last.outcome).value

\* C5: whenever a cycle ends in failure the list region is hidden and the
\* error region is shown with that failure's message.
C5_FailureHidesList ==
    last.kind = "failed" =>
        /\ ~Shown(view[last.c].commentsList)
        /\ Shown(view[last.c].errorDiv)
        /\ Contains(view[last.c].errorText, Cause(last.outcome))

C8_OneSchedulerPerContainer ==
    \A c \in 1..Len(page) :
        /\ Len(view[c].clickListeners) <= 1
        /\ Cardinality({iv \in intervals : iv.inst[2] = c}) <= 1

\* C9: a failed cycle leaves the scheduler running: every instance whose
\* initial cycle is over has its timer, also when that cycle failed, and
\* after a failure a click and every timer tick still start a cycle.
C9_FailureKeepsScheduler ==
    /\ \A c \in 1..Len(page) :
           \A i \in 1..Len(view[c].clickListeners) :
               LET inst == view[c].clickListeners[i]
               IN  \/ \E k \in 1..Len(view[c].cycles) :
                          view[c].cycles[k].inst = inst /\ view[c].cycles[k].src = "initial"
                   \/ \E iv \in intervals : iv.inst = inst
    /\ last.kind = "failed" =>
           /\ view[last.c].clickListeners # <<>>
           /\ last.cycle.src = "initial" => \E iv \in intervals : iv.inst = last.cycle.inst
           /\ extra < MaxTriggers =>
                  /\ ENABLED Click(last.c, MaxTriggers)
                  /\ \A iv \in intervals : ENABLED TimerTick(iv, MaxTriggers)

\* a timer cycle is in flight on a view that has failed and never rendered
C9_Witness ==
    \E c \in 1..Len(page) :
        /\ Len(view[c].cycles) = 1
        /\ view[c].cycles[1].src = "timer"
        /\ view[c].errorText # <<>>
        /\ view[c].listHTML = <<>>

\* C10: whatever the outcome of the request, the cycle ends normally, as
\* rendered or as failed, with the loader hidden; nothing reaches the page as
\* an unhandled rejection; a failed cycle shows a message with the cause
\* text, and the cycle leaves the view Rendered or Failed.
C10_NoFailureEscapes ==
    last.kind # "none" =>
        /\ last.kind = IF Renders(last.outcome) THEN "rendered" ELSE "failed"
        /\ \A u \in uncaught : u.from \in {"script", "DOMContentLoaded"}
        /\ ~Shown(view[last.c].loader)
        /\ last.kind = "failed" =>
               /\ Shown(view[last.c].errorDiv)
               /\ Cause(last.outcome) # <<>>
               /\ Contains(view[last.c].errorText, Cause(last.outcome))
        /\ last.kind = "rendered" => Shown(view[last.c].commentsList)
        /\ Status(view[last.c]) \in {"Rendered", "Failed"}

\* a 200 response carrying body
Ok200(body) == [net |-> "response", status |-> 200, body |-> body]

\* C11: the content of the list region changes only in the step that ends a
\* successful cycle, and then to the whole rendering of that cycle's response;
\* a cycle whose rendering throws after its first comment leaves it as it was.
C11_WholeReplacement ==
    [][\A c \in 1..Len(page) :
           view'[c].listHTML # view[c].listHTML =>
               /\ last'.kind = "rendered"
               /\ last'.c = c
               /\ view'[c].listHTML = TryBlock(last'.outcome).value]_vars

\* a cycle whose second comment made rendering throw has just failed on a
\* view that still holds the whole content of an earlier response
C11_Witness ==
    /\ last.kind = "failed"
    /\ last.outcome = Ok200(DataBadSecond)
    /\ view[last.c].listHTML = TryBlock(Ok200(DataOne)).value

\* C12: a cycle whose 200 response has no thread, no thread.replies or an
\* empty replies array ends as rendered: the list region is shown and holds
\* exactly the 'no comments yet' placeholder, and the error region is not
\* shown.
C12_EmptyIsSuccess ==
    (last.kind # "none" /\ last.outcome.net = "response" /\ last.outcome.status = 200
         /\ last.outcome.body \in {DataNoThread, DataNoReplies, DataEmpty}) =>
        /\ last.kind = "rendered"
        /\ Shown(view[last.c].commentsList)
        /\ view[last.c].listHTML = <<[el |-> "no-comments"]>>
        /\ ~Shown(view[last.c].loader)
        /\ ~Shown(view[last.c].errorDiv)

\* C18: in the state that follows the end of any cycle, rendered or failed,
\* with or without other cycles of the view in flight, the loader is hidden.
C18_LoaderHiddenAtEnd ==
    last.kind \in {"rendered", "failed"} => view[last.c].loader = "none"

\* a cycle has just failed while another cycle of the view is in flight
C18_Witness ==
    /\ last.kind = "failed"
    /\ view[last.c].cycles # <<>>
    /\ view[last.c].loader = "none"

\* C22: a cycle whose payload has a post without a string uri still ends as
\* rendered, with the list region shown.
C22_MalformedStillRenders ==
    (last.kind # "none" /\ last.outcome \in {Ok200(DataBadUri), Ok200(DataBadSecond)}) =>
        /\ last.kind = "rendered"
        /\ Shown(view[last.c].commentsList)

\* the moves of the display: Idle -> Loading -> {Rendered, Failed} -> Loading
Edges ==
    {<<"Idle", "Loading">>, <<"Loading", "Rendered">>, <<"Loading", "Failed">>,
     <<"Rendered", "Loading">>, <<"Failed", "Loading">>}

\* C23: whenever the display of a view changes, it moves along
\* Idle -> Loading -> {Rendered, Failed} -> Loading.
C23_StateMachine ==
    [][\A c \in 1..Len(page) :
           Status(view'[c]) # Status(view[c]) =>
               <<Status(view[c]), Status(view'[c])>> \in Edges]_vars

C24_TimerNeverCleared ==
    /\ [](\A iv \in intervals :
              extra < MaxTriggers => ENABLED TimerTick(iv, MaxTriggers))
    /\ [][\A iv \in intervals : \E jv \in intervals' : jv.inst = iv.inst]_vars

\* a cycle started by a timer tick after the removal of its container is in
\* flight
C24_Witness ==
    \E c \in 1..Len(page) :
        /\ view[c].removed = <<0>>
        /\ extra = 1
        /\ \E k \in 1..Len(view[c].cycles) : view[c].cycles[k].src = "timer"
        /\ TimersOf(c) # {}

\* C26: while the initial cycle of an instance is in flight its click
\* listener is attached, it has no timer and no cycle of it was started by a
\* timer; so a timer exists only for an instance whose initial request has
\* settled.
C26_TimerAfterInitialCycle ==
    \A c \in 1..Len(page) :
        \A k \in 1..Len(view[c].cycles) :
            view[c].cycles[k].src = "initial" =>
                /\ \E i \in 1..Len(view[c].clickListeners) :
                       view[c].clickListeners[i] = view[c].cycles[k].inst
                /\ \A iv \in intervals : iv.inst # view[c].cycles[k].inst
                /\ \A j \in 1..Len(view[c].cycles) :
                       view[c].cycles[j].inst = view[c].cycles[k].inst =>
                           view[c].cycles[j].src # "timer"

\* a click cycle of an instance is in flight together with its initial cycle
C26_Witness ==
    \E c \in 1..Len(page) :
        \E k, j \in 1..Len(view[c].cycles) :
            /\ view[c].cycles[k].src = "initial"
            /\ view[c].cycles[j].src = "click"
            /\ view[c].cycles[j].inst = view[c].cycles[k].inst

\* C27: the error region and the list region of a view are never both shown.
C27_ErrorAndListExclusive ==
    \A c \in 1..Len(page) : ~(Shown(view[c].errorDiv) /\ Shown(view[c].commentsList))

\* C28: the loader of a view is shown whenever a cycle of the view is in flight.
C28_LoaderWhileInFlight ==
    \A c \in 1..Len(page) : view[c].cycles # <<>> => Shown(view[c].loader)

\* C30: the list region is empty at first; the step that ends a successful
\* cycle sets its content to the rendering of that cycle's response, and
\* every other step, the end of a failed cycle among them, leaves the content
\* as it was.
C30_FailureKeepsContent ==
    /\ \A c \in 1..Len(page) : view[c].listHTML = <<>>
    /\ [][\A c \in 1..Len(page) :
             view'[c].listHTML =
                 IF last'.kind = "rendered" /\ last'.c = c
                 THEN TryBlock(last'.outcome).value
                 ELSE view[c].listHTML]_vars

\* a cycle has just failed with a 500 on a view that shows the content of the
\* last successful cycle next to the error
C30_Witness ==
    /\ last.kind = "failed"
    /\ last.outcome.net = "response"
    /\ last.outcome.status = 500
    /\ view[last.c].listHTML # <<>>
    /\ view[last.c].errorText # <<>>
    /\ view[last.c].cycles = <<>>

(************************* properties of the page *************************)

\* C4: once the scripts have run, every container that has its identifier and
\* its four descendants has a scheduler, wherever a broken container stands.
C4_OtherViewsInitialised ==
    (script # "start" /\ dclListener # "registered") =>
        \A c \in 1..Len(page) :
            (page[c].uri /\ page[c].parts = Parts) => view[c].clickListeners # <<>>

\* C17: every step other than the two scripts, so the start of a cycle by a
\* click or a timer tick and the end of a cycle in success or failure, is a
\* step of one container: the regions, the listeners, the cycles in flight
\* and the timers of every other container stay as they were.
C17_ViewsIndependent ==
    [][(script' = script /\ dclListener' = dclListener) =>
           \E a \in 1..Len(page) :
               \A b \in (1..Len(page)) \ {a} :
                   /\ view'[b] = view[b]
                   /\ TimersOf(b)' = TimersOf(b)]_vars

\* a click cycle of the first container has just ended while the second
\* container is loading with a cycle in flight
C17_Witness ==
    /\ Len(page) = 2
    /\ last.kind # "none"
    /\ last.c = 1
    /\ last.cycle.src = "click"
    /\ view[2].cycles # <<>>
    /\ Status(view[2]) = "Loading"
    /\ TimersOf(2) # {}

\* C19: a container without its identifier or without one of its four
\* descendants stays as the page delivered it: no click listener, no cycle in
\* flight, its regions untouched, and no timer.
C19_BrokenViewNeverStarts ==
    \A c \in 1..Len(page) :
        (~page[c].uri \/ page[c].parts # {"loader", "error", "list", "button"}) =>
            /\ view[c].clickListeners = <<>>
            /\ view[c].cycles = <<>>
            /\ view[c].loader = "" /\ view[c].errorDiv = "none" /\ view[c].commentsList = "none"
            /\ view[c].errorText = <<>> /\ view[c].listHTML = <<>>
            /\ \A iv \in intervals : iv.inst[2] # c

\* the container before a broken one has run a click cycle to its end
C19_Witness ==
    /\ Len(page) = 2
    /\ ~page[2].uri \/ page[2].parts # {"loader", "error", "list", "button"}
    /\ last.kind # "none"
    /\ last.c = 1
    /\ last.cycle.src = "click"
    /\ uncaught # {}

\* C7: the first tick of a scheduler's timer, its second cycle, comes one
\* interval after the scheduler was mounted.
C7_SecondCycleAtInterval ==
    \A iv \in intervals : iv.ticks = 1 => iv.due - Interval = iv.mounted + Interval

====
